---- MODULE Spec2Model ----
(***************************************************************************)
(* A model of ffmonitor (src/src/lib.rs): the connection worker `listen`   *)
(* with its reconnect loop, the notification dispatcher built in           *)
(* Monitor::new_internal, the consumer operations of Monitor, and the      *)
(* frame parser of `listen`.                                               *)
(*                                                                         *)
(* A wire line is a sequence of atoms (strings): the keywords, the         *)
(* punctuation the grammars look at, the blank " " and the tab "\t", and   *)
(* words.  The line's text is the concatenation of its atoms.  An          *)
(* Option<T> is a sequence of length 0 (None) or 1 (Some).                 *)
(***************************************************************************)
EXTENDS Integers, Sequences, FiniteSets, TLC

\* ------------------------------------------------------------------ bounds

\* Notifications the worker may emit in one run (bounds the histories).
MaxNotifs == 4

\* Lines read on one connection.
MaxWire == 3

\* The count of consecutive failed connect attempts saturates here.
MaxFails == 2

\* Lines of a frame handed to the parser in SpecParse, made of any FrameLines.
MaxFrameLen == 3

\* Lines of a frame handed to the parser in SpecParse, made of EmailFrameLines.
MaxEmailFrameLen == 4

\* ------------------------------------------------------------- atoms, lines

SP == " "

TAB == "\t"

NL == "\n"

IsWhite(a) == a \in {SP, TAB, NL}

\* \d+ : the digit strings of the model.  The last one, 10^20 - 1, is above
\* both i32::MAX and u64::MAX, so str::parse fails on it for every numeric
\* field; the others are in range of each.
DigitAtoms == {"0", "1", "3", "4", "10", "20", "99999999999999999999"}

IsDigits(a) == a \in DigitAtoms

\* -?\d+
IsSignedDigits(a) == IsDigits(a) \/ a \in {"-20", "-1"}

\* str::parse::<i32>, ::<usize>, ::<u64>: Ok exactly when the value is in range.
ParsesAsInt(a) == a # "99999999999999999999"

\* The value str::parse returns for an atom it accepts.
IntVal(a) ==
  CASE a = "0" -> 0
    [] a = "1" -> 1
    [] a = "3" -> 3
    [] a = "4" -> 4
    [] a = "10" -> 10
    [] a = "20" -> 20
    [] a = "-20" -> -20
    [] a = "-1" -> -1

\* The least element of a set of integers, or `otherwise` when it is empty.
LeastOr(S, otherwise) ==
  IF S = {} THEN otherwise ELSE CHOOSE k \in S : \A m \in S : k <= m

\* The place of the first atom of line, at or after i, that is not whitespace,
\* and of the first that is; Len(line) + 1 when there is none.
FirstNonWhite(line, i) ==
  LeastOr({k \in i..Len(line) : ~IsWhite(line[k])}, Len(line) + 1)

FirstWhite(line, i) ==
  LeastOr({k \in i..Len(line) : IsWhite(line[k])}, Len(line) + 1)

\* str::trim_start: every leading whitespace atom is removed.
trim_start(line) == SubSeq(line, FirstNonWhite(line, 1), Len(line))

\* str::starts_with('\t')
StartsWithTab(line) == line # <<>> /\ line[1] = TAB

\* str::starts_with("endemail")
StartsWithEndemail(line) == line # <<>> /\ line[1] = "endemail"

\* line.pop(): the last character (the newline read_line kept) is removed.
pop(raw) == IF raw = <<>> THEN <<>> ELSE SubSeq(raw, 1, Len(raw) - 1)

\* get_first_token: line.split_whitespace().next(), the atoms of the first
\* whitespace-delimited token; <<>> is None.
get_first_token(line) ==
  LET b == FirstNonWhite(line, 1)
      e == FirstWhite(line, b)
  IN  SubSeq(line, b, e - 1)

\* The place of the first line of ls, at or after i, that does not start with a
\* tab: where `while !lines.is_empty() && lines[0].starts_with('\t')` stops.
FirstNonTabLine(ls, i) ==
  LeastOr({k \in i..Len(ls) : ~StartsWithTab(ls[k])}, Len(ls) + 1)

\* ------------------------------------------------------------ event parsers
\* Each parser returns an Option<Event>: <<>> for Err, <<event>> for Ok.

\* PlayerEvent::parse, ^player (-?\d+) (-?\d+) (.+)$ then two i32 parses.
PlayerEvent_parse(line) ==
  IF /\ Len(line) >= 7
     /\ line[1] = "player" /\ line[2] = SP
     /\ IsSignedDigits(line[3]) /\ line[4] = SP
     /\ IsSignedDigits(line[5]) /\ line[6] = SP
     /\ ParsesAsInt(line[3]) /\ ParsesAsInt(line[5])
  THEN << [kind |-> "Player", x_coord |-> IntVal(line[3]),
           y_coord |-> IntVal(line[5]), name |-> SubSeq(line, 7, Len(line))] >>
  ELSE <<>>

\* str::to_lowercase on the chat kinds the model writes with capitals.
to_lowercase(a) ==
  CASE a = "FreeChat" -> "freechat"
    [] a = "TradeChat" -> "tradechat"
    [] a = "GroupChat" -> "groupchat"
    [] OTHER -> a

\* ChatKind::from(&str): the lower-cased text selects the kind, anything else is
\* Unknown(s) with the text as written.
ChatKind_from(s) ==
  LET low == IF Len(s) = 1 THEN to_lowercase(s[1]) ELSE ""
  IN  CASE low = "freechat" -> [tag |-> "FreeChat", raw |-> <<>>]
        [] low = "menuchat" -> [tag |-> "MenuChat", raw |-> <<>>]
        [] low = "buddychat" -> [tag |-> "BuddyChat", raw |-> <<>>]
        [] low = "buddymenuchat" -> [tag |-> "BuddyMenuChat", raw |-> <<>>]
        [] low = "groupchat" -> [tag |-> "GroupChat", raw |-> <<>>]
        [] low = "groupmenuchat" -> [tag |-> "GroupMenuChat", raw |-> <<>>]
        [] low = "tradechat" -> [tag |-> "TradeChat", raw |-> <<>>]
        [] OTHER -> [tag |-> "Unknown", raw |-> s]

\* The least element of a non-empty set of integers, and the greatest.
MinOf(S) == CHOOSE k \in S : \A m \in S : k <= m

MaxOf(S) == CHOOSE k \in S : \A m \in S : k >= m

\* ChatEvent::parse, ^chat \[(.+?)\] (.+?)(?: \(to (.+)\))?: (.*)$ .
\* k is the place of the "]" that ends the kind, j the last atom of `from`,
\* m the last atom of `to`; the lazy groups take the least k and j, the greedy
\* `to` the greatest m.
ChatEvent_parse(line) ==
  LET n == Len(line)
      At(i, a) == i <= n /\ line[i] = a
      WithTo(j, m) == /\ At(j + 1, SP) /\ At(j + 2, "(") /\ At(j + 3, "to")
                      /\ At(j + 4, SP) /\ m >= j + 5
                      /\ At(m + 1, ")") /\ At(m + 2, ":") /\ At(m + 3, SP)
      NoTo(j) == At(j + 1, ":") /\ At(j + 2, SP)
      TailAt(k, j) == NoTo(j) \/ \E m \in j + 5..n : WithTo(j, m)
      Ks == {k \in 5..n : /\ At(k, "]") /\ At(k + 1, SP)
                          /\ \E j \in k + 2..n : TailAt(k, j)}
  IN  IF n >= 3 /\ line[1] = "chat" /\ line[2] = SP /\ line[3] = "[" /\ Ks # {}
      THEN LET k == MinOf(Ks)
               j == MinOf({i \in k + 2..n : TailAt(k, i)})
               Ms == {m \in j + 5..n : WithTo(j, m)}
           IN  << [kind |-> "Chat",
                   chatkind |-> ChatKind_from(SubSeq(line, 4, k - 1)),
                   from |-> SubSeq(line, k + 2, j),
                   to |-> IF Ms # {} THEN << SubSeq(line, j + 5, MaxOf(Ms)) >>
                          ELSE <<>>,
                   message |-> IF Ms # {} THEN SubSeq(line, MaxOf(Ms) + 4, n)
                               ELSE SubSeq(line, j + 3, n)] >>
      ELSE <<>>

\* BroadcastScope::try_from(usize): 0..3 are the scopes, any other code is Err.
BroadcastScope_try_from(value) ==
  CASE value = 0 -> << "Local" >>
    [] value = 1 -> << "Channel" >>
    [] value = 2 -> << "Shard" >>
    [] value = 3 -> << "Global" >>
    [] OTHER -> <<>>

\* BroadcastEvent::parse, ^bcast (\d+) (\d+) (\d+) (.+?): (.*)$ , then the scope's
\* usize parse and try_into, and the two usize parses.
BroadcastEvent_parse(line) ==
  LET n == Len(line)
      At(i, a) == i <= n /\ line[i] = a
      Js == {j \in 9..n : At(j + 1, ":") /\ At(j + 2, SP)}
  IN  IF /\ n >= 8
         /\ line[1] = "bcast" /\ line[2] = SP
         /\ IsDigits(line[3]) /\ line[4] = SP
         /\ IsDigits(line[5]) /\ line[6] = SP
         /\ IsDigits(line[7]) /\ line[8] = SP
         /\ Js # {}
         /\ ParsesAsInt(line[3])
         /\ BroadcastScope_try_from(IntVal(line[3])) # <<>>
         /\ ParsesAsInt(line[5]) /\ ParsesAsInt(line[7])
      THEN LET j == MinOf(Js)
           IN  << [kind |-> "Broadcast",
                   scope |-> BroadcastScope_try_from(IntVal(line[3]))[1],
                   announcement_type |-> IntVal(line[5]),
                   duration_secs |-> IntVal(line[7]),
                   from |-> SubSeq(line, 9, j),
                   message |-> SubSeq(line, j + 3, n)] >>
      ELSE <<>>

\* EmailEvent::parse, ^email \[Email\] (.+?) \(to (.+?)\): <(.+)>$ ; the subject
\* "No subject." is None.  j is the last atom of `from`, m the last of `to`.
EmailEvent_parse(header, body) ==
  LET n == Len(header)
      At(i, a) == i <= n /\ header[i] = a
      Rest(j, m) == /\ At(j + 1, SP) /\ At(j + 2, "(") /\ At(j + 3, "to")
                    /\ At(j + 4, SP) /\ m >= j + 5
                    /\ At(m + 1, ")") /\ At(m + 2, ":") /\ At(m + 3, SP)
                    /\ At(m + 4, "<") /\ n >= m + 6 /\ header[n] = ">"
      Js == {j \in 7..n : \E m \in j + 5..n : Rest(j, m)}
  IN  IF /\ n >= 6
         /\ header[1] = "email" /\ header[2] = SP /\ header[3] = "["
         /\ header[4] = "Email" /\ header[5] = "]" /\ header[6] = SP
         /\ Js # {}
      THEN LET j == MinOf(Js)
               m == MinOf({i \in j + 5..n : Rest(j, i)})
               subject == SubSeq(header, m + 5, n - 1)
           IN  << [kind |-> "Email",
                   from |-> SubSeq(header, 7, j),
                   to |-> SubSeq(header, j + 5, m),
                   subject |-> IF subject = << "No subject." >> THEN <<>>
                               ELSE << subject >>,
                   body |-> body] >>
      ELSE <<>>

\* NameRequestEvent::parse, ^namereq (\d+) (.+)$ then the u64 parse.
NameRequestEvent_parse(line) ==
  IF /\ Len(line) >= 5
     /\ line[1] = "namereq" /\ line[2] = SP
     /\ IsDigits(line[3]) /\ line[4] = SP
     /\ ParsesAsInt(line[3])
  THEN << [kind |-> "NameRequest", player_uid |-> IntVal(line[3]),
           requested_name |-> SubSeq(line, 5, Len(line))] >>
  ELSE <<>>

\* ------------------------------------------------------------- frame parser

\* ParseFrame with a line that does not parse ending the loop (`break`).
RECURSIVE ParseFrame_Abort(_)
ParseFrame_Abort(ls) ==
  IF ls = <<>> THEN <<>>
  ELSE
    LET first_line == Head(ls)
        rest == Tail(ls)
        tok == get_first_token(first_line)
        nb == FirstNonTabLine(rest, 1) - 1
        body == [i \in 1..nb |-> trim_start(rest[i])]
        after == SubSeq(rest, nb + 1, Len(rest))
        Then(ev, more) == IF ev = <<>> THEN <<>> ELSE ev \o ParseFrame_Abort(more)
    IN  CASE tok = << "player" >> -> Then(PlayerEvent_parse(first_line), rest)
          [] tok = << "chat" >> -> Then(ChatEvent_parse(first_line), rest)
          [] tok = << "bcast" >> -> Then(BroadcastEvent_parse(first_line), rest)
          [] tok = << "email" >> ->
               IF after = <<>> \/ ~StartsWithEndemail(after[1])
               THEN <<>>
               ELSE Then(EmailEvent_parse(first_line, body), Tail(after))
          [] tok = << "namereq" >> -> Then(NameRequestEvent_parse(first_line), rest)
          [] OTHER -> <<>>

\* ParseFrame with the email arm removing the line after the body before it
\* tests it for "endemail": an unclosed block takes the next line with it.
RECURSIVE ParseFrame_EatsNext(_)
ParseFrame_EatsNext(ls) ==
  IF ls = <<>> THEN <<>>
  ELSE
    LET first_line == Head(ls)
        rest == Tail(ls)
        tok == get_first_token(first_line)
        nb == FirstNonTabLine(rest, 1) - 1
        body == [i \in 1..nb |-> trim_start(rest[i])]
        after == SubSeq(rest, nb + 1, Len(rest))
    IN  CASE tok = << "player" >> ->
               PlayerEvent_parse(first_line) \o ParseFrame_EatsNext(rest)
          [] tok = << "chat" >> ->
               ChatEvent_parse(first_line) \o ParseFrame_EatsNext(rest)
          [] tok = << "bcast" >> ->
               BroadcastEvent_parse(first_line) \o ParseFrame_EatsNext(rest)
          [] tok = << "email" >> ->
               IF after = <<>> THEN <<>>
               ELSE IF ~StartsWithEndemail(after[1])
                    THEN ParseFrame_EatsNext(Tail(after))
                    ELSE EmailEvent_parse(first_line, body)
                           \o ParseFrame_EatsNext(Tail(after))
          [] tok = << "namereq" >> ->
               NameRequestEvent_parse(first_line) \o ParseFrame_EatsNext(rest)
          [] OTHER -> ParseFrame_EatsNext(rest)

\* The while loop of listen that turns the frame buffer into the events of one
\* MonitorUpdate: the first token of the front line selects the parser, a line
\* that does not parse is skipped (`continue`), and an email header takes the
\* tab-prefixed lines after it as its body and needs an endemail line next.
RECURSIVE ParseFrame(_)
ParseFrame(ls) ==
  IF ls = <<>> THEN <<>>
  ELSE
    LET first_line == Head(ls)
        rest == Tail(ls)
        tok == get_first_token(first_line)
        nb == FirstNonTabLine(rest, 1) - 1
        body == [i \in 1..nb |-> trim_start(rest[i])]
        after == SubSeq(rest, nb + 1, Len(rest))
    IN  CASE tok = << "player" >> ->
               PlayerEvent_parse(first_line) \o ParseFrame(rest)
          [] tok = << "chat" >> ->
               ChatEvent_parse(first_line) \o ParseFrame(rest)
          [] tok = << "bcast" >> ->
               BroadcastEvent_parse(first_line) \o ParseFrame(rest)
          [] tok = << "email" >> ->
               IF after = <<>> \/ ~StartsWithEndemail(after[1])
               THEN ParseFrame(after)
               ELSE EmailEvent_parse(first_line, body) \o ParseFrame(Tail(after))
          [] tok = << "namereq" >> ->
               NameRequestEvent_parse(first_line) \o ParseFrame(rest)
          [] OTHER -> ParseFrame(rest)

\* MonitorUpdate::get_player_count
get_player_count(update) ==
  Cardinality({i \in 1..Len(update) : update[i].kind = "Player"})

\* ------------------------------------------------------------ the wire lines

LBegin == << "begin" >>

LEnd == << "end" >>

LPlayer == << "player", SP, "10", SP, "-20", SP, "Captain", SP, "Courage" >>

LPlayerBad == << "player", SP, "99999999999999999999", SP, "1", SP, "Bob" >>

LChat == << "chat", SP, "[", "FreeChat", "]", SP, "Captain", SP, "Courage",
            ":", SP, "Hello", SP, "world!" >>

LChatTo == << "chat", SP, "[", "Whisper", "]", SP, "Bob", SP, "(", "to", SP,
              "Amy", ")", ":", SP, "psst" >>

LBcast == << "bcast", SP, "1", SP, "0", SP, "10", SP, "GM", ":", SP, "hi" >>

LBcastBad == << "bcast", SP, "4", SP, "0", SP, "10", SP, "GM", ":", SP, "hi" >>

LEmail == << "email", SP, "[", "Email", "]", SP, "Bob", SP, "(", "to", SP,
             "Amy", ")", ":", SP, "<", "Hi", ">" >>

LEmailBad == << "email", SP, "Bob" >>

LBody == << TAB, "text" >>

LBodyIndented == << TAB, SP, "text" >>

LBodyBlank == << TAB >>

LEndEmail == << "endemail" >>

LNameReq == << "namereq", SP, "3", SP, "Neo" >>

LJunk == << "foo" >>

LEmpty == <<>>

\* The lines the peer may send on a connection.
WireLines == {LBegin, LEnd, LPlayer, LJunk}

\* The lines a frame handed to the parser is made of.
FrameLines == {LPlayer, LPlayerBad, LChat, LChatTo, LBcast, LBcastBad, LEmail,
               LEmailBad, LBody, LEndEmail, LNameReq, LJunk, LEmpty}

\* The lines the longer frames are made of: those of an email block, with a
\* valid and an invalid line of other kinds.
EmailFrameLines == {LEmail, LBody, LBodyIndented, LBodyBlank, LEndEmail, LPlayer,
                    LJunk}

\* -------------------------------------------------------------------- state

VARIABLES
  address,     \* the address string Monitor::new or new_with_callback was given
  mode,        \* "buffered" (Monitor::new) or "callback" (new_with_callback)
  pc,          \* the worker's position in the spawned loop, listen and the
               \* dispatcher; "unspawned" when no worker thread was started
  lines,       \* listen's frame buffer `lines`
  cur,         \* the notification the dispatcher is handling
  connected,   \* Monitor.connected, the shared AtomicBool
  last_update, \* Monitor.last_update, Option<MonitorUpdate> behind the mutex
  lock,        \* the holder of the last_update mutex: "free", "worker", "consumer"
  queue,       \* the mpsc channel tx -> rx
  gpc,         \* the consumer's position: "idle", "locked" inside
               \* get_last_update, "joining" inside shutdown, or "err" when the
               \* constructor gave no Monitor
  ret,         \* what the consumer's last completed call returned
  notifs,      \* history: every notification listen handed to the dispatcher
  cbcalls,     \* history: every notification the user callback was invoked with
  polled,      \* history: every update poll() returned
  wire,        \* history: the lines read on the current connection
  prev,        \* history: the worker's last attempt result, backoff or notification
  fails,       \* history: consecutive failed connect attempts, saturating
  dropped      \* history: the last connection dropped with lines in its frame buffer

vars == << address, mode, pc, lines, cur, connected, last_update, lock, queue, gpc, ret,
           notifs, cbcalls, polled, wire, prev, fails, dropped >>

workerVars == << pc, lines, cur, notifs, cbcalls, wire, prev, fails >>

consumerVars == << gpc, ret, polled >>

\* MonitorNotification: Connected, Updated(MonitorUpdate), Disconnected.
Notification(type, update) == [type |-> type, update |-> update]

NoNotification == Notification("none", <<>>)

\* What a consumer call returned: a bool of is_connected, an Option<MonitorUpdate>
\* of poll and get_last_update.
Returned(op, flag, upd) == [op |-> op, flag |-> flag, upd |-> upd]

\* The one address of the model that is a socket address, and strings that are
\* none: a host name, an address without a port, a port above 65535, nothing.
GoodAddress == << "127.0.0.1", ":", "8003" >>

Addresses == { GoodAddress, << "localhost", ":", "8003" >>, << "127.0.0.1" >>,
               << "127.0.0.1", ":", "99999" >>, << >> }

\* `address.parse()` to a SocketAddr: an IP literal, a colon and a u16 port give
\* Some address, every other string an AddrParseError (here None).
SocketAddr_parse(a) ==
  IF Len(a) = 3 /\ a[1] = "127.0.0.1" /\ a[2] = ":" /\ a[3] = "8003"
  THEN << a >> ELSE << >>

\* WorkerStart with the thread spawned before the address is parsed.
WorkerStart_SpawnFirst(a) == "connect"

\* Where the worker is when the constructor returns: `address.parse()?` returns
\* the error before thread::spawn is reached, so no worker exists; otherwise
\* the spawned loop is about to call listen.
WorkerStart(a) == IF SocketAddr_parse(a) = << >> THEN "unspawned" ELSE "connect"

\* What the caller holds when the constructor returns: a Monitor to call, or
\* the error.
HandleStart(a) == IF SocketAddr_parse(a) = << >> THEN "err" ELSE "idle"

\* Monitor::new_internal: the address is parsed, then the flag is false, the
\* snapshot None, the channel empty, and the worker is spawned.
Init ==
  /\ address \in Addresses
  /\ mode \in {"buffered", "callback"}
  /\ pc = WorkerStart(address)
  /\ lines = <<>>
  /\ cur = NoNotification
  /\ connected = FALSE
  /\ last_update = <<>>
  /\ lock = "free"
  /\ queue = <<>>
  /\ gpc = HandleStart(address)
  /\ ret = Returned("none", FALSE, <<>>)
  /\ notifs = <<>>
  /\ cbcalls = <<>>
  /\ polled = <<>>
  /\ wire = <<>>
  /\ prev = "init"
  /\ fails = 0
  /\ dropped = FALSE

\* ------------------------------------------------------------ the dispatcher

\* Buffers with the test of user_callback left out: every update is sent.
Buffers_Always == TRUE

\* `if user_callback.is_none()`: only then is an update sent on the channel.
Buffers == mode = "buffered"

\* `if let Some(cb) = &user_callback`: only then is the user callback invoked.
HasUserCallback == mode = "callback"

\* FlagAfter with the Connected arm's store left out.
FlagAfter_NoSet(t, old) == IF t = "Disconnected" THEN FALSE ELSE old

\* FlagAfter with the Disconnected arm's store left out.
FlagAfter_NoClear(t, old) == IF t = "Connected" THEN TRUE ELSE old

\* The flag after the dispatcher's match on a notification of type t:
\* Connected stores true, Disconnected stores false, Updated leaves it.
FlagAfter(t, old) ==
  CASE t = "Connected" -> TRUE
    [] t = "Disconnected" -> FALSE
    [] OTHER -> old

\* AfterDispatch with listen's `return Ok(())` after Disconnected left out: the
\* read loop goes on.
AfterDispatch_KeepReading(t) == "read"

\* AfterDispatch with the loop sleeping after every return of listen.
AfterDispatch_Backoff(t) == IF t = "Disconnected" THEN "sleep" ELSE "read"

\* Where listen goes on when the dispatcher returns: back to read_line after
\* Connected and Updated; after Disconnected listen returns Ok(()) and the
\* spawned loop, which sleeps only on Err, calls listen again at once.
AfterDispatch(t) == IF t = "Disconnected" THEN "connect" ELSE "read"

\* AfterListenErr with a retry limit: the loop ends after two failures in a row.
AfterListenErr_GiveUp == IF fails >= 2 THEN "stopped" ELSE "sleep"

\* Where the spawned loop goes when listen returns Err: thread::sleep.
AfterListenErr == "sleep"

\* AfterFlag with the user callback called for updates only.
AfterFlag_SkipCallback(t) == AfterDispatch(t)

\* Where the dispatcher goes after its match on Connected or Disconnected.
AfterFlag(t) == IF HasUserCallback THEN "d_cb" ELSE AfterDispatch(t)

\* AfterStore with an update of no events not sent on the channel.
AfterStore_DropEmpty ==
  IF Buffers /\ cur.update # <<>> THEN "d_send"
  ELSE IF HasUserCallback THEN "d_cb" ELSE "read"

\* Where the dispatcher goes with an update once the snapshot is stored.
AfterStore == IF Buffers THEN "d_send" ELSE IF HasUserCallback THEN "d_cb" ELSE "read"

\* Where the dispatcher goes with an update once it is sent on the channel.
AfterSend == IF HasUserCallback THEN "d_cb" ELSE "read"

\* --------------------------------------------------------------- the worker

\* listen is entered: the worker starts TcpStream::connect_timeout.
connect_start ==
  /\ pc = "connect"
  /\ pc' = "connecting"
  /\ UNCHANGED << address, dropped, mode, lines, cur, connected, last_update, lock, queue, notifs,
                  cbcalls, wire, prev, fails >>
  /\ UNCHANGED consumerVars

\* connect_timeout fails: listen returns Err, the loop logs it and sleeps.
connect_err ==
  /\ pc = "connecting"
  /\ pc' = AfterListenErr
  /\ prev' = "connfail"
  /\ fails' = IF fails < MaxFails THEN fails + 1 ELSE fails
  /\ UNCHANGED << address, dropped, mode, lines, cur, connected, last_update, lock, queue, notifs,
                  cbcalls, wire >>
  /\ UNCHANGED consumerVars

\* thread::sleep(1 s) is over: the loop calls listen again.
backoff ==
  /\ pc = "sleep"
  /\ pc' = "connect"
  /\ prev' = "sleep"
  /\ UNCHANGED << address, dropped, mode, lines, cur, connected, last_update, lock, queue, notifs,
                  cbcalls, wire, fails >>
  /\ UNCHANGED consumerVars

\* FreshLines with the frame buffer kept outside listen, one Vec for all the
\* calls.
FreshLines_Kept(old) == old

\* The frame buffer of a call of listen: `let mut lines = Vec::new()`, a local
\* made empty after each connect and dropped when listen returns, whatever the
\* buffer of the call before held.
FreshLines(old) == << >>

\* connect_timeout succeeds: callback(Connected), whose dispatcher stores the
\* flag; then the reader and the empty frame buffer are made.
connect_ok ==
  /\ pc = "connecting"
  /\ Len(notifs) + 2 <= MaxNotifs
  /\ notifs' = Append(notifs, Notification("Connected", <<>>))
  /\ cur' = Notification("Connected", <<>>)
  /\ connected' = FlagAfter("Connected", connected)
  /\ pc' = AfterFlag("Connected")
  /\ lines' = FreshLines(lines)
  /\ wire' = <<>>
  /\ prev' = "Connected"
  /\ fails' = 0
  /\ UNCHANGED << address, dropped, mode, last_update, lock, queue, cbcalls >>
  /\ UNCHANGED consumerVars

\* read_line returns Ok(0) or Err: callback(Disconnected), whose dispatcher
\* stores the flag; listen then returns Ok(()) and drops its frame buffer.
read_fail ==
  /\ pc = "read"
  /\ notifs' = Append(notifs, Notification("Disconnected", <<>>))
  /\ cur' = Notification("Disconnected", <<>>)
  /\ connected' = FlagAfter("Disconnected", connected)
  /\ pc' = AfterFlag("Disconnected")
  /\ lines' = FreshLines(lines)
  /\ dropped' = (lines # << >>)
  /\ prev' = "Disconnected"
  /\ UNCHANGED << address, mode, last_update, lock, queue, cbcalls, wire, fails >>
  /\ UNCHANGED consumerVars

\* LinesAfter with the clear on "begin" left out.
LinesAfter_NoClear(line, buf) == Append(buf, line)

\* The frame buffer after a line that is not "end": "begin" clears it, any
\* other line is pushed.
LinesAfter(line, buf) == IF line = LBegin THEN <<>> ELSE Append(buf, line)

\* read_line returns a line other than "end": it is popped and buffered.
read_line ==
  /\ pc = "read"
  /\ Len(wire) < MaxWire
  /\ \E l \in WireLines \ {LEnd} :
       LET line == pop(l \o << NL >>)
       IN  /\ wire' = Append(wire, line)
           /\ lines' = LinesAfter(line, lines)
  /\ UNCHANGED << address, dropped, mode, pc, cur, connected, last_update, lock, queue, notifs,
                  cbcalls, prev, fails >>
  /\ UNCHANGED consumerVars

\* read_line returns "end": the frame buffer is drained into the events of a
\* MonitorUpdate and callback(Updated(update)) enters the dispatcher.
read_end ==
  /\ pc = "read"
  /\ Len(wire) < MaxWire
  /\ Len(notifs) + 2 <= MaxNotifs
  /\ LET line == pop(LEnd \o << NL >>)
         update == ParseFrame(lines)
     IN  /\ line = LEnd
         /\ wire' = Append(wire, line)
         /\ lines' = <<>>
         /\ notifs' = Append(notifs, Notification("Updated", update))
         /\ cur' = Notification("Updated", update)
  /\ pc' = "d_lock"
  /\ prev' = "Updated"
  /\ UNCHANGED << address, dropped, mode, connected, last_update, lock, queue, cbcalls, fails >>
  /\ UNCHANGED consumerVars

\* The dispatcher's lu.lock(): the worker waits until the mutex is free.
dispatch_lock ==
  /\ pc = "d_lock"
  /\ lock = "free"
  /\ lock' = "worker"
  /\ pc' = "d_store"
  /\ UNCHANGED << address, dropped, mode, lines, cur, connected, last_update, queue, notifs,
                  cbcalls, wire, prev, fails >>
  /\ UNCHANGED consumerVars

\* StoredSnapshot with the store made only when the update is not sent on the
\* channel.
StoredSnapshot_Unsent(update, old) == IF Buffers THEN old ELSE << update >>

\* StoredSnapshot keeping a snapshot once there is one.
StoredSnapshot_KeepFirst(update, old) == IF old = <<>> THEN << update >> ELSE old

\* The snapshot after `*guard = Some(update.clone())`.
StoredSnapshot(update, old) == << update >>

\* LockAfterStore with the guard bound to a name that lives to the end of the
\* dispatcher.
LockAfterStore_Held == "worker"

\* The mutex after the store: the guard of `lu.lock().unwrap()` is a temporary
\* and is dropped at the end of the statement.
LockAfterStore == "free"

\* `*guard = Some(update.clone())`, and the guard is dropped with the statement.
dispatch_store ==
  /\ pc = "d_store"
  /\ last_update' = StoredSnapshot(cur.update, last_update)
  /\ lock' = LockAfterStore
  /\ pc' = AfterStore
  /\ UNCHANGED << address, dropped, mode, lines, cur, connected, queue, notifs, cbcalls, wire,
                  prev, fails >>
  /\ UNCHANGED consumerVars

\* tx.send(update)
dispatch_send ==
  /\ pc = "d_send"
  /\ queue' = Append(queue, cur.update)
  /\ pc' = AfterSend
  /\ UNCHANGED << address, dropped, mode, lines, cur, connected, last_update, lock, notifs,
                  cbcalls, wire, prev, fails >>
  /\ UNCHANGED consumerVars

\* cb(notification): the user callback is entered on the worker thread.
dispatch_cb ==
  /\ pc = "d_cb"
  /\ cbcalls' = Append(cbcalls, cur)
  /\ pc' = "d_cbret"
  /\ UNCHANGED << address, dropped, mode, lines, cur, connected, last_update, lock, queue, notifs,
                  wire, prev, fails >>
  /\ UNCHANGED consumerVars

\* The user callback returns, and with it the dispatcher.
callback_return ==
  /\ pc = "d_cbret"
  /\ pc' = AfterDispatch(cur.type)
  /\ UNCHANGED << address, dropped, mode, lines, cur, connected, last_update, lock, queue, notifs,
                  cbcalls, wire, prev, fails >>
  /\ UNCHANGED consumerVars

\* ------------------------------------------------------------- the consumer

\* try_recv taking the newest message instead of the oldest.
try_recv_newest(q) ==
  IF q = <<>> THEN [val |-> <<>>, rest |-> q]
  ELSE [val |-> << q[Len(q)] >>, rest |-> SubSeq(q, 1, Len(q) - 1)]

\* Receiver::try_recv: the oldest message leaves the channel; an empty channel
\* gives Err, which .ok() turns into None.
try_recv(q) ==
  IF q = <<>> THEN [val |-> <<>>, rest |-> q]
  ELSE [val |-> << Head(q) >>, rest |-> Tail(q)]

\* Monitor::poll: rx.try_recv().ok()
poll ==
  /\ gpc = "idle"
  /\ ret' = Returned("poll", FALSE, try_recv(queue).val)
  /\ queue' = try_recv(queue).rest
  /\ polled' = polled \o try_recv(queue).val
  /\ UNCHANGED << address, dropped, mode, connected, last_update, lock, gpc >>
  /\ UNCHANGED workerVars

\* Monitor::is_connected: connected.load(Acquire)
is_connected ==
  /\ gpc = "idle"
  /\ ret' = Returned("is_connected", connected, <<>>)
  /\ UNCHANGED << address, dropped, mode, connected, last_update, lock, queue, gpc, polled >>
  /\ UNCHANGED workerVars

\* Monitor::get_last_update, last_update.lock(): waits until the mutex is free.
get_last_update_lock ==
  /\ gpc = "idle"
  /\ lock = "free"
  /\ lock' = "consumer"
  /\ gpc' = "locked"
  /\ UNCHANGED << address, dropped, mode, connected, last_update, queue, ret, polled >>
  /\ UNCHANGED workerVars

\* Monitor::get_last_update, .clone(): the snapshot is copied, the guard dropped.
get_last_update ==
  /\ gpc = "locked"
  /\ ret' = Returned("get_last_update", FALSE, last_update)
  /\ lock' = "free"
  /\ gpc' = "idle"
  /\ UNCHANGED << address, dropped, mode, connected, last_update, queue, polled >>
  /\ UNCHANGED workerVars

\* Monitor::shutdown: the Monitor is consumed and handle.join() waits for the
\* worker thread to finish.  The thread runs `loop` without break or return,
\* so while the worker runs (no panic is modelled) join does not return and
\* no step leaves "joining".
shutdown ==
  /\ gpc = "idle"
  /\ gpc' = "joining"
  /\ UNCHANGED << address, dropped, mode, connected, last_update, lock, queue, ret, polled >>
  /\ UNCHANGED workerVars

\* ------------------------------------------------------- the specifications

Worker ==
  \/ connect_start
  \/ connect_err
  \/ backoff
  \/ connect_ok
  \/ read_fail
  \/ read_line
  \/ read_end
  \/ dispatch_lock
  \/ dispatch_store
  \/ dispatch_send
  \/ dispatch_cb
  \/ callback_return

Consumer ==
  \/ poll
  \/ is_connected
  \/ get_last_update_lock
  \/ get_last_update
  \/ shutdown

Next == Worker \/ Consumer

Spec == Init /\ [][Next]_vars

\* The retry loop's fairness: thread::sleep returns after its second, and the
\* loop then calls listen, which starts the next connect attempt.
SpecFair == Spec /\ WF_vars(backoff) /\ WF_vars(connect_start)

\* The worker thread is scheduled: it takes a step whenever it has one.
SpecLive == Spec /\ WF_vars(Worker)

\* The worker, once it holds the mutex, gets to run its store; nothing is
\* assumed of the user callback, which may never return.
SpecStore == Spec /\ WF_vars(dispatch_store)

\* The frame parser alone: a frame of at most MaxFrameLen lines, or of at most
\* MaxEmailFrameLen lines of an email block, is in the frame buffer when "end"
\* is read, and parse_frame parses it.
RECURSIVE SeqsUpTo(_, _)
SeqsUpTo(S, n) ==
  IF n = 0 THEN {<<>>}
  ELSE LET shorter == SeqsUpTo(S, n - 1)
       IN  shorter \cup {Append(f, l) : f \in {g \in shorter : Len(g) = n - 1}, l \in S}

InitParse ==
  /\ address = GoodAddress
  /\ mode = "buffered"
  /\ pc = "parse"
  /\ lines \in SeqsUpTo(FrameLines, MaxFrameLen)
                 \cup SeqsUpTo(EmailFrameLines, MaxEmailFrameLen)
  /\ cur = NoNotification
  /\ connected = TRUE
  /\ last_update = <<>>
  /\ lock = "free"
  /\ queue = <<>>
  /\ gpc = "idle"
  /\ ret = Returned("none", FALSE, <<>>)
  /\ notifs = << Notification("Connected", <<>>) >>
  /\ cbcalls = <<>>
  /\ polled = <<>>
  /\ wire = <<>>
  /\ prev = "Connected"
  /\ fails = 0
  /\ dropped = FALSE

\* The parse of read_end on the frame in `lines`, which is kept beside the
\* update made of it.
parse_frame ==
  /\ pc = "parse"
  /\ cur' = Notification("Updated", ParseFrame(lines))
  /\ pc' = "parsed"
  /\ UNCHANGED << address, dropped, mode, lines, connected, last_update, lock, queue, gpc, ret,
                  notifs, cbcalls, polled, wire, prev, fails >>

NextParse == parse_frame

SpecParse == InitParse /\ [][NextParse]_vars

\* ---------------------------------------------------------------- properties

\* The notifications of type t in a history.
CountType(h, t) == Cardinality({i \in 1..Len(h) : h[i].type = t})

\* The updates of the Updated notifications of a history, in order.
RECURSIVE UpdatesOf(_)
UpdatesOf(h) ==
  IF h = <<>> THEN <<>>
  ELSE IF Head(h).type = "Updated" THEN << Head(h).update >> \o UpdatesOf(Tail(h))
  ELSE UpdatesOf(Tail(h))

Front(h) == SubSeq(h, 1, Len(h) - 1)

\* No connection is up: the worker is at, or inside, a connect attempt or the
\* backoff, or there is no worker.
BetweenConnections == pc \in {"connect", "connecting", "sleep", "unspawned"}

\* The worker is in the user callback's call for Disconnected, or about to be.
DeliveringDisconnected == pc \in {"d_cb", "d_cbret"} /\ cur.type = "Disconnected"

\* C1: when a read on an established connection returns zero bytes or fails, the
\* flag is false and exactly one Disconnected has been emitted for that
\* connection by the time the worker is at its next connect attempt; while the
\* connection stands, no Disconnected has been emitted for it.
C1_DisconnectedBeforeReconnect ==
  IF BetweenConnections \/ DeliveringDisconnected
  THEN /\ connected = FALSE
       /\ CountType(notifs, "Disconnected") = CountType(notifs, "Connected")
       /\ (notifs # <<>> => notifs[Len(notifs)].type = "Disconnected")
  ELSE CountType(notifs, "Disconnected") + 1 = CountType(notifs, "Connected")

\* A connection that delivered an update has dropped and the worker is back at
\* the top of listen.
C1_Witness ==
  /\ pc = "connect"
  /\ prev = "Disconnected"
  /\ CountType(notifs, "Updated") >= 1

\* C2 as stated: no connect attempt follows a Disconnected without a backoff
\* wait in between.
C2_BackoffAfterDrop == pc = "connecting" => prev # "Disconnected"

\* C2 amended: after an established connection drops the worker makes its next
\* connect attempt at once; the backoff wait is taken only after a failed
\* connect attempt.
C2_NoBackoffAfterDrop ==
  /\ pc = "sleep" => prev = "connfail"
  /\ prev = "Disconnected" => pc \in {"d_cb", "d_cbret", "connect", "connecting"}

\* The worker is inside the connect attempt that follows a drop, the flag
\* already false, and no backoff was taken.
C2_Witness == pc = "connecting" /\ prev = "Disconnected" /\ ~connected

\* C3: after every failed connect attempt the worker takes one backoff wait and
\* then makes another connect attempt, however many attempts have failed in a
\* row.
C3_RetriesForever ==
  /\ [](prev = "connfail" => pc = "sleep")
  /\ [](prev = "sleep" => pc \in {"connect", "connecting"})
  /\ (prev = "connfail") ~> (prev = "sleep" /\ pc = "connecting")

\* The worker is in a connect attempt after MaxFails failures in a row.
C3_Witness == fails = MaxFails /\ prev = "sleep" /\ pc = "connecting"

\* The updates handed to the dispatcher that have reached the channel.
SentUpdates ==
  IF pc \in {"d_lock", "d_store", "d_send"} THEN Front(UpdatesOf(notifs))
  ELSE UpdatesOf(notifs)

\* C4: in buffered mode the updates poll() has returned, followed by those
\* still in the channel, are the updates the worker has sent, in order: what
\* poll() returns is a prefix of them, none lost, repeated or reordered, and
\* poll() returns nothing exactly when none is pending.
C4_PollIsFifoPrefix ==
  /\ [](mode = "buffered" =>
          /\ polled \o queue = SentUpdates
          /\ ret.op = "poll" /\ ret.upd # <<>> =>
               polled # <<>> /\ ret.upd[1] = polled[Len(polled)])
  /\ [][mode = "buffered" /\ poll => (ret'.upd = <<>> <=> queue = <<>>)]_vars

\* One update was polled and a later, different one is still pending.
C4_Witness ==
  /\ mode = "buffered"
  /\ polled # <<>>
  /\ queue # <<>>
  /\ polled[1] # queue[1]

\* The worker is inside the dispatcher and has not yet called the user callback.
BeforeCallback == pc \in {"d_lock", "d_store", "d_send", "d_cb"}

\* C5: in callback mode the user callback is invoked once for every
\* notification listen emits, of each type, in order, and before the worker
\* goes on; in buffered mode it is never invoked.
C5_CallbackSeesEveryNotification ==
  /\ mode = "buffered" => cbcalls = <<>>
  /\ mode = "callback" =>
       cbcalls = IF BeforeCallback THEN Front(notifs) ELSE notifs

\* A callback-mode run in which the callback got a Connected, an Updated and a
\* Disconnected.
C5_Witness ==
  /\ mode = "callback"
  /\ CountType(cbcalls, "Connected") >= 1
  /\ CountType(cbcalls, "Updated") >= 1
  /\ CountType(cbcalls, "Disconnected") >= 1

\* C6: in callback mode nothing is ever enqueued: the channel is empty and
\* poll() has only ever returned nothing.
C6_CallbackModeQueueEmpty ==
  mode = "callback" =>
    /\ queue = <<>>
    /\ polled = <<>>
    /\ ret.op = "poll" => ret.upd = <<>>

\* poll() has returned after two updates were dispatched in callback mode.
C6_Witness ==
  /\ mode = "callback"
  /\ CountType(cbcalls, "Updated") >= 2
  /\ ret.op = "poll"

\* The event a line of a single-line kind parses to, as an Option.
SingleLineEvent(l) ==
  LET tok == get_first_token(l)
  IN  CASE tok = << "player" >> -> PlayerEvent_parse(l)
        [] tok = << "chat" >> -> ChatEvent_parse(l)
        [] tok = << "bcast" >> -> BroadcastEvent_parse(l)
        [] tok = << "namereq" >> -> NameRequestEvent_parse(l)
        [] OTHER -> <<>>

\* A line that matches the email header's grammar.
IsEmailHeader(l) ==
  get_first_token(l) = << "email" >> /\ EmailEvent_parse(l, <<>>) # <<>>

\* A syntactically valid event line: one that matches its kind's grammar.
ValidEventLine(l) == SingleLineEvent(l) # <<>> \/ IsEmailHeader(l)

ValidLinesOf(f) == {i \in 1..Len(f) : ValidEventLine(f[i])}

\* The email event of the block that starts at line i of frame f: the header,
\* the run of tab-prefixed lines right after it, and an endemail line right
\* after those; <<>> when line i is no header or the block is not so closed.
EmailBlockAt(f, i) ==
  LET j == FirstNonTabLine(f, i + 1)
  IN  IF /\ get_first_token(f[i]) = << "email" >>
         /\ j <= Len(f)
         /\ StartsWithEndemail(f[j])
      THEN EmailEvent_parse(f[i], [k \in 1..(j - i - 1) |-> trim_start(f[i + k])])
      ELSE <<>>

\* Line by line, the events of frame f from line i on: one per valid
\* single-line event line and one per closed email block with a valid header.
RECURSIVE EventsByLine(_, _)
EventsByLine(f, i) ==
  IF i > Len(f) THEN <<>>
  ELSE SingleLineEvent(f[i]) \o EmailBlockAt(f, i) \o EventsByLine(f, i + 1)

\* C7 as stated: a frame of N syntactically valid event lines and M invalid
\* ones gives an update of exactly N events.
C7_OneEventPerValidLine ==
  pc = "parsed" => Len(cur.update) = Cardinality(ValidLinesOf(lines))

\* C7 amended: the update holds, in the order of their lines, one event for
\* every valid single-line event line (player, chat, bcast, namereq) and one for
\* every email block whose valid header is followed at once by its tab-prefixed
\* body lines and an endemail line; an email header not closed so gives no
\* event, invalid lines give none, and none of them ends the parse of the frame.
C7_EventsOfValidLinesAndClosedEmails ==
  pc = "parsed" => cur.update = EventsByLine(lines, 1)

\* A parsed frame with an invalid line between two valid ones, both of which
\* gave their event.
C7_Witness ==
  /\ pc = "parsed"
  /\ Len(cur.update) = 2
  /\ \E i, j, k \in 1..Len(lines) :
       /\ i < j /\ j < k
       /\ ValidEventLine(lines[i])
       /\ ~ValidEventLine(lines[j])
       /\ ValidEventLine(lines[k])

\* The place in w, a connection's lines up to an "end" just read, of the last
\* "begin" or "end" before that "end"; 0 when there is none.
LastMarkBefore(w) ==
  LET marks == {i \in 1..Len(w) - 1 : w[i] \in {LBegin, LEnd}}
  IN  IF marks = {} THEN 0 ELSE MaxOf(marks)

\* The "end" just read closes a frame that a "begin" opened.
EndHasBegin(w) == LastMarkBefore(w) > 0 /\ w[LastMarkBefore(w)] = LBegin

\* The lines read after the last "begin" or "end" and before the "end" just read.
LinesSinceMark(w) == SubSeq(w, LastMarkBefore(w) + 1, Len(w) - 1)

\* C8 as stated: every Updated is built from the lines between a `begin` and
\* its `end`, and none from an `end` without a `begin` since the previous `end`.
C8_UpdateOnlyFromBeginEnd ==
  pc = "d_lock" =>
    EndHasBegin(wire) /\ cur.update = ParseFrame(LinesSinceMark(wire))

\* C8 amended: every Updated carries exactly the events parsed from the lines
\* read after the most recent `begin` or `end` of the connection (or since the
\* connection was made) up to the `end` that closes it; an `end` with no
\* `begin` before it still gives an Update, built from those lines.
C8_UpdateFromLinesSinceLastMark ==
  pc = "d_lock" => cur.update = ParseFrame(LinesSinceMark(wire))

\* An update with an event was emitted at an `end` that no `begin` opened.
C8_Witness ==
  /\ pc = "d_lock"
  /\ ~EndHasBegin(wire)
  /\ cur.update # <<>>

IsTransition(n) == n.type \in {"Connected", "Disconnected"}

\* The worker's connection state as of the last Connected or Disconnected it
\* emitted; false before the first.
LastTransitionConnected ==
  LET ts == SelectSeq(notifs, IsTransition)
  IN  ts # <<>> /\ ts[Len(ts)].type = "Connected"

\* C9: the flag is_connected() reads is true exactly when the most recent
\* Connected or Disconnected emitted was Connected, and false before the first
\* connect; is_connected() returns the flag.
C9_FlagIsLastTransition ==
  /\ [](connected = LastTransitionConnected)
  /\ [][is_connected => ret'.flag = connected]_vars

\* is_connected() returned true on a connection made after a drop.
C9_Witness ==
  /\ connected
  /\ CountType(notifs, "Disconnected") >= 1
  /\ ret = Returned("is_connected", TRUE, <<>>)

\* The updates handed to the dispatcher whose snapshot store is done.
StoredUpdates ==
  IF pc \in {"d_lock", "d_store"} THEN Front(UpdatesOf(notifs))
  ELSE UpdatesOf(notifs)

\* C10: the snapshot get_last_update() returns is None until the first update
\* is dispatched and then the most recently dispatched update, in both modes;
\* only the dispatcher's store changes it.
C10_SnapshotIsLatestUpdate ==
  /\ [](last_update = IF StoredUpdates = <<>> THEN <<>>
                      ELSE << StoredUpdates[Len(StoredUpdates)] >>)
  /\ [][last_update' # last_update => pc = "d_store" /\ pc' # "d_store"]_vars
  /\ [][get_last_update => ret'.upd = last_update]_vars

\* get_last_update() returned the second of two different updates.
C10_Witness ==
  /\ Len(StoredUpdates) >= 2
  /\ StoredUpdates[1] # StoredUpdates[2]
  /\ ret = Returned("get_last_update", FALSE, << StoredUpdates[2] >>)

\* C11: poll() leaves the snapshot as it is and get_last_update() leaves the
\* channel and what was polled as they are; the newest update, once poll() has
\* returned it, is still the snapshot get_last_update() reads.
C11_PollAndSnapshotIndependent ==
  /\ [](mode = "buffered" /\ polled # <<>> /\ Len(polled) = Len(StoredUpdates)
          => last_update = << polled[Len(polled)] >>)
  /\ [][poll => last_update' = last_update /\ lock' = lock]_vars
  /\ [][get_last_update_lock \/ get_last_update =>
          queue' = queue /\ polled' = polled]_vars

\* poll() returned the newest update, with an event in it, and get_last_update()
\* then returned the same update.
C11_Witness ==
  /\ mode = "buffered"
  /\ polled # <<>>
  /\ Len(polled) = Len(StoredUpdates)
  /\ polled[Len(polled)] # <<>>
  /\ ret = Returned("get_last_update", FALSE, << polled[Len(polled)] >>)

\* C12: when the address given to the constructor is not a socket address, the
\* caller gets the error and no worker exists: no connect attempt is made and
\* no notification is emitted, queued or passed to a callback, in both modes.
C12_BadAddressStartsNothing ==
  SocketAddr_parse(address) = << >> =>
    /\ gpc = "err"
    /\ pc = "unspawned"
    /\ prev = "init" /\ fails = 0
    /\ notifs = << >> /\ cbcalls = << >> /\ queue = << >>
    /\ ~connected /\ last_update = << >>

\* A constructor with a callback was given a host name instead of an IP literal.
C12_Witness ==
  /\ address = << "localhost", ":", "8003" >>
  /\ mode = "callback"
  /\ gpc = "err"

\* Line i of frame f is an email header whose block is not closed: the line
\* after its tab-prefixed lines is missing or does not start with "endemail".
UnclosedEmailAt(f, i) ==
  LET j == FirstNonTabLine(f, i + 1)
  IN  /\ get_first_token(f[i]) = << "email" >>
      /\ (j > Len(f) \/ ~StartsWithEndemail(f[j]))

NotEmailEvent(e) == e.kind # "Email"

IsEmailEvent(e) == e.kind = "Email"

\* The events of the valid single-line event lines of frame f from line i on.
RECURSIVE SingleLineEvents(_, _)
SingleLineEvents(f, i) ==
  IF i > Len(f) THEN <<>>
  ELSE SingleLineEvent(f[i]) \o SingleLineEvents(f, i + 1)

\* C13: in a frame with an email header whose block is not closed by an
\* endemail line, that block gives no email event (the email events are those
\* of the closed blocks only), and the other events of the update are those of
\* all the valid single-line event lines of the frame, before and after the
\* header, in order.
C13_UnclosedEmailDropsOnlyItself ==
  pc = "parsed" /\ (\E i \in 1..Len(lines) : UnclosedEmailAt(lines, i)) =>
    /\ Len(SelectSeq(cur.update, IsEmailEvent))
         = Cardinality({i \in 1..Len(lines) : EmailBlockAt(lines, i) # <<>>})
    /\ SelectSeq(cur.update, NotEmailEvent) = SingleLineEvents(lines, 1)

\* A frame of a player line, a valid email header with a body line and no
\* endemail, and a second player line was parsed to the two player events.
C13_Witness ==
  /\ pc = "parsed"
  /\ lines = << LPlayer, LEmail, LBody, LPlayer >>
  /\ cur.update = PlayerEvent_parse(LPlayer) \o PlayerEvent_parse(LPlayer)

\* C14 as stated: a call of shutdown() that is waiting returns, the worker's
\* loop iteration over.
C14_ShutdownReturns == (gpc = "joining") ~> (gpc = "joined")

\* shutdown() was called during a connection; since then that iteration of the
\* loop ended, a connect attempt failed and the backoff was taken, and the call
\* is still waiting.
C14_Witness == gpc = "joining" /\ pc = "connect" /\ prev = "sleep" /\ notifs # << >>

\* The place in w, a connection's lines up to an "end" just read, of the last
\* "begin"; 0 when there is none.
LastBeginBefore(w) ==
  LET begins == {i \in 1..Len(w) - 1 : w[i] = LBegin}
  IN  IF begins = {} THEN 0 ELSE MaxOf(begins)

\* C15: the update emitted at an `end` is made only of lines read after the
\* most recent `begin` of the connection: it is the parse of a run of lines
\* that starts after that `begin` and ends at the `end`, so no line read
\* before the `begin` gives an event of it.
C15_BeginDiscardsBuffer ==
  pc = "d_lock" /\ LastBeginBefore(wire) > 0 =>
    /\ \E k \in LastBeginBefore(wire)..(Len(wire) - 1) :
         cur.update = ParseFrame(SubSeq(wire, k + 1, Len(wire) - 1))
    /\ Len(cur.update) <= Len(wire) - 1 - LastBeginBefore(wire)

\* A player line, then `begin`, then `end`: the update emitted is empty.
C15_Witness ==
  /\ pc = "d_lock"
  /\ LastBeginBefore(wire) >= 2
  /\ ValidEventLine(wire[LastBeginBefore(wire) - 1])
  /\ wire[Len(wire)] = LEnd
  /\ cur.update = << >>

\* The notifications of history h that follow its last Connected.
SinceConnected(h) ==
  LET cs == {i \in 1..Len(h) : h[i].type = "Connected"}
  IN  IF cs = {} THEN h ELSE SubSeq(h, MaxOf(cs) + 1, Len(h))

\* The updates of no events in a sequence of updates.
CountEmpty(us) == Cardinality({i \in 1..Len(us) : us[i] = << >>})

\* C16: on a connection, the Updated notifications emitted are as many as the
\* `end` lines read: a step that reads `end` emits one Updated, with the parse
\* of the frame, and a step that reads another line emits nothing; an update of
\* no events is delivered like any other, to the channel in buffered mode and
\* to the callback in callback mode.
C16_OneUpdatedPerEnd ==
  /\ [](CountType(SinceConnected(notifs), "Updated")
          = Cardinality({i \in 1..Len(wire) : wire[i] = LEnd}))
  /\ [][read_end => notifs' = Append(notifs, Notification("Updated", ParseFrame(lines)))]_vars
  /\ [][read_line => notifs' = notifs]_vars
  /\ [](mode = "buffered" =>
          CountEmpty(polled \o queue) = CountEmpty(SentUpdates))
  /\ [](mode = "callback" =>
          CountEmpty(UpdatesOf(cbcalls))
            = CountEmpty(UpdatesOf(IF BeforeCallback THEN Front(notifs) ELSE notifs)))

\* In buffered mode a frame of one unknown line was closed by `end` and poll()
\* returned its update, which has no events.
C16_Witness ==
  /\ mode = "buffered"
  /\ wire = << LJunk, LEnd >>
  /\ CountType(notifs, "Updated") = 1
  /\ ret = Returned("poll", FALSE, << << >> >>)

\* The email event of the closed block that starts at line i of frame f, its
\* body the tab-prefixed lines with their first atom, the tab, taken off and
\* nothing else; <<>> when line i starts no closed block.
EmailBlockLessTabAt(f, i) ==
  LET j == FirstNonTabLine(f, i + 1)
  IN  IF /\ get_first_token(f[i]) = << "email" >>
         /\ j <= Len(f)
         /\ StartsWithEndemail(f[j])
      THEN EmailEvent_parse(f[i], [k \in 1..(j - i - 1) |-> Tail(f[i + k])])
      ELSE <<>>

RECURSIVE EmailsLessTab(_, _)
EmailsLessTab(f, i) ==
  IF i > Len(f) THEN <<>>
  ELSE EmailBlockLessTabAt(f, i) \o EmailsLessTab(f, i + 1)

\* C17 as stated: the body of every email event is the sequence of the
\* tab-prefixed lines after its header, in order, each with its one leading
\* tab removed and otherwise as read.
C17_BodyIsLinesLessOneTab ==
  pc = "parsed" => SelectSeq(cur.update, IsEmailEvent) = EmailsLessTab(lines, 1)

\* An email block with the body line tab, blank, "text" was parsed, and the
\* event's body line is "text" without the blank.
C17_Witness ==
  /\ pc = "parsed"
  /\ lines = << LEmail, LBodyIndented, LEndEmail >>
  /\ Len(cur.update) = 1
  /\ cur.update[1].body = << << "text" >> >>

\* History h is Connected, Updated ..., Disconnected, repeated, the last round
\* possibly unfinished: a Connected is first or follows a Disconnected, and an
\* Updated or a Disconnected follows a Connected or an Updated.
WellShaped(h) ==
  \A i \in 1..Len(h) :
    /\ h[i].type \in {"Connected", "Updated", "Disconnected"}
    /\ IF h[i].type = "Connected"
       THEN i = 1 \/ h[i - 1].type = "Disconnected"
       ELSE i > 1 /\ h[i - 1].type \in {"Connected", "Updated"}

\* C18: the notifications emitted are rounds of Connected, zero or more
\* Updated, Disconnected; a failed connect attempt emits nothing, reaches no
\* callback and no channel, and leaves the flag and the snapshot alone.
C18_NotificationShape ==
  /\ [] WellShaped(notifs)
  /\ [][connect_err =>
          /\ notifs' = notifs /\ cbcalls' = cbcalls /\ queue' = queue
          /\ connected' = connected /\ last_update' = last_update]_vars

\* A connection gave one update and dropped, and the connect attempt after it
\* failed: three notifications in all.
C18_Witness ==
  /\ Len(notifs) = 3
  /\ notifs[1].type = "Connected"
  /\ notifs[2].type = "Updated"
  /\ notifs[3].type = "Disconnected"
  /\ prev = "connfail"

\* The snapshot holds the n-th update emitted or a later one.
SnapshotAtOrAfter(snap, n) ==
  \E k \in n..Len(UpdatesOf(notifs)) : k >= 1 /\ snap = << UpdatesOf(notifs)[k] >>

\* C19: the dispatcher stores before it delivers.  Once poll() has returned
\* updates, or the callback has been invoked with updates, the snapshot holds
\* the last of them or a later update, and that is what a get_last_update()
\* made then returns; and while the callback runs for Connected the flag is
\* true, for Disconnected false.
C19_StateBeforeDelivery ==
  /\ [](polled \o queue # << >> =>
          SnapshotAtOrAfter(last_update, Len(polled) + Len(queue)))
  /\ [](CountType(cbcalls, "Updated") >= 1 =>
          SnapshotAtOrAfter(last_update, CountType(cbcalls, "Updated")))
  /\ [][get_last_update /\ polled # << >> =>
          SnapshotAtOrAfter(ret'.upd, Len(polled))]_vars
  /\ [][get_last_update /\ CountType(cbcalls, "Updated") >= 1 =>
          SnapshotAtOrAfter(ret'.upd, CountType(cbcalls, "Updated"))]_vars
  /\ [](pc = "d_cbret" /\ cur.type = "Connected" => connected)
  /\ [](pc = "d_cbret" /\ cur.type = "Disconnected" => ~connected)

\* poll() returned the second of two different updates and get_last_update(),
\* called after it, returned that update.
C19_Witness ==
  /\ Len(polled) = 2
  /\ polled[1] # polled[2]
  /\ queue = << >>
  /\ ret = Returned("get_last_update", FALSE, << polled[2] >>)

\* C20: the worker holds the mutex only at its store of the snapshot, not
\* while it sends the update or is in the user callback, and whenever it holds
\* the mutex it frees it again, whether or not the callback ever returns;
\* poll() and is_connected() can run whoever holds the mutex and leave it alone.
C20_LockOnlyAroundStore ==
  /\ [](lock = "worker" => pc = "d_store")
  /\ [](pc \in {"d_send", "d_cb", "d_cbret"} => lock # "worker")
  /\ (lock = "worker") ~> (lock # "worker")
  /\ [](gpc = "idle" => ENABLED poll /\ ENABLED is_connected)
  /\ [][poll \/ is_connected => lock' = lock]_vars

\* The consumer holds the mutex inside get_last_update() while the worker is
\* inside the user callback with an update.
C20_Witness ==
  /\ pc = "d_cbret"
  /\ cur.type = "Updated"
  /\ gpc = "locked"
  /\ lock = "consumer"

\* The lines of w, the lines read so far on the current connection, that
\* follow its last "begin" or "end".
CurrentFrame(w) ==
  LET marks == {i \in 1..Len(w) : w[i] \in {LBegin, LEnd}}
  IN  SubSeq(w, (IF marks = {} THEN 0 ELSE MaxOf(marks)) + 1, Len(w))

====
